---- MODULE Spec2Model ----
(***************************************************************************)
(* A model of the two MCP tool servers of Fixie.run:                       *)
(*   - mcp_servers/blockchain_monitor.py (the Chain Inspector), whose      *)
(*     handlers use the synchronous Web3 client and so run to completion   *)
(*     without a suspension point: one action per tool invocation;         *)
(*   - mcp_servers/web3_aggregator.py (the Market Aggregator), whose       *)
(*     handlers suspend at the outbound aiohttp request: one action for    *)
(*     the part of call_tool up to the request, one for the part after it. *)
(* The two servers share no state; SpecMon and SpecAgg are their           *)
(* specifications.                                                         *)
(***************************************************************************)
EXTENDS Integers, Sequences, FiniteSets, TLC

VARIABLES
    mon,        \* Chain Inspector: the last tool invocation and what it did
    now,        \* Market Aggregator: datetime.now(), in whole seconds
    ticks,      \* number of clock advances so far (bounds the exploration)
    cache,      \* Web3Aggregator.cache: key -> None | Some([time, data])
    session,    \* Web3Aggregator.session: None | Some(session id)
    sessions,   \* every ClientSession created so far: id -> "open" | "closed"
    tasks,      \* the aggregator's invocations, by the id of the session each created
    last,       \* the aggregator invocation that returned last, and what it did
    lastOk      \* per cache key: the last call that completed with HTTP 200

vars == <<mon, now, ticks, cache, session, sessions, tasks, last, lastOk>>
aggVars == <<now, ticks, cache, session, sessions, tasks, last, lastOk>>

\* Python's Optional: None, or a value.
None == <<>>
Some(x) == <<x>>
Get(o, default) == IF o = None THEN default ELSE o[1]

\* Python's min/max on integers.
Max(a, b) == IF a >= b THEN a ELSE b
Min(a, b) == IF a <= b THEN a ELSE b

\* seq[-n:] for n > 0: the last n elements (all of them when there are fewer).
LastN(s, n) == SubSeq(s, Max(1, Len(s) - n + 1), Len(s))

\* seq[:n] for n >= 0: the first n elements.
FirstN(s, n) == SubSeq(s, 1, Min(n, Len(s)))

(***************************************************************************)
(* Bounds of the exploration.                                              *)
(***************************************************************************)
MaxTxCount == 3     \* tx_count arguments range over 0..MaxTxCount (and the default)
MaxCalls == 2       \* aggregator invocations per behaviour
MaxTicks == 1       \* clock advances per behaviour

(***************************************************************************)
(* Program constants.                                                      *)
(***************************************************************************)
ScanDepth == 100          \* track_transactions: range(head, max(head - 100, 0), -1)
DefaultTxCount == 10      \* track_transactions: tx_count default
DefaultLookback == 1000   \* monitor_events: current_block - 1000
EventCap == 50            \* monitor_events: events[-50:]
SizeLimit == 24576        \* check_vulnerabilities: 24KB limit
TvlWindow == 3600         \* fetch_tvl: 1h cache
PriceWindow == 300        \* get_token_price: 5min cache

\* BlockchainMonitor.providers: the chains with a provider.
SupportedChains == {"polygon-zkevm", "scroll", "zksync"}
DefaultChain == "polygon-zkevm"

(***************************************************************************)
(* Addresses.  An address argument is a string; what the handlers do with  *)
(* it depends only on which account it names and on its form:              *)
(*   "checksum"  40 hex digits in the EIP-55 mixed case,                   *)
(*   "lower"     40 hex digits, all lower case,                            *)
(*   "badsum"    40 hex digits, mixed case, wrong EIP-55 checksum,         *)
(*   "malformed" not 40 hex digits at all ("0xNotAnAddress").              *)
(***************************************************************************)
Addr(id, form) == [id |-> id, form |-> form]
Malformed == Addr("0xNotAnAddress", "malformed")
AddressInputs == {Addr("A", "checksum"), Addr("A", "lower"), Addr("A", "badsum"), Malformed}

\* Web3.is_address: a hex address whose checksum, when it is mixed case, is right.
is_address(a) == a.form \in {"checksum", "lower"}

\* Web3.to_checksum_address lower-cases, checks the format and re-encodes:
\* it raises ValueError only for a malformed string.
ChecksumRaises(a) == a.form = "malformed"
to_checksum_address(a) == Addr(a.id, "checksum")

(***************************************************************************)
(* The chain as the RPC endpoint shows it to one invocation.               *)
(*   connected  what w3.is_connected() answers                             *)
(*   fails      the first data request after the probe raises              *)
(*   head       w3.eth.block_number                                        *)
(*   layout     the transactions of the blocks near the head               *)
(*   logs       the contract's event log                                   *)
(*   code       the deployed bytecode                                      *)
(***************************************************************************)
\* Transactions of one block, by kind: sent by A, received by A, or between others.
Patterns == {<<>>, <<"o", "r">>, <<"s", "r">>}
\* Distances from the head of the blocks that hold transactions.
Offsets == {0, 1, ScanDepth - 1, ScanDepth}
Layouts == [Offsets -> Patterns]
EmptyLayout == [o \in Offsets |-> <<>>]

Tx(kind, n, i) ==
    [hash |-> <<n, i>>,
     from |-> IF kind = "s" THEN Addr("A", "checksum") ELSE Addr("B", "checksum"),
     to   |-> IF kind = "r" THEN Addr("A", "checksum") ELSE Addr("C", "checksum")]

\* w3.eth.get_block(n, full_transactions=True).transactions
BlockTxs(env, n) ==
    IF env.head - n \in Offsets
    THEN LET pat == env.layout[env.head - n]
         IN [i \in 1..Len(pat) |-> Tx(pat[i], n, i)]
    ELSE <<>>

(***************************************************************************)
(* track_transactions: the backward block scan.                            *)
(***************************************************************************)
TouchesAddress(tx, address) == tx.from = address \/ tx.to = address

TxRecord(tx, block_num, address) ==
    [hash |-> tx.hash, from |-> tx.from, to |-> tx.to, block |-> block_num,
     type |-> IF tx.from = address THEN "sent" ELSE "received"]

\* The inner loop: for tx in block.transactions (from position i on), with
\* its break once len(transactions) >= tx_count.
RECURSIVE ScanTxs(_, _, _, _, _, _)
ScanTxs(txs, i, block_num, address, tx_count, transactions) ==
    IF i > Len(txs) THEN transactions
    ELSE IF TouchesAddress(txs[i], address)
         THEN LET appended == Append(transactions, TxRecord(txs[i], block_num, address))
              IN IF Len(appended) >= tx_count THEN appended
                 ELSE ScanTxs(txs, i + 1, block_num, address, tx_count, appended)
         ELSE ScanTxs(txs, i + 1, block_num, address, tx_count, transactions)

\* The outer loop's break test off by one.
ScanDoneLate(transactions, tx_count) == Len(transactions) > tx_count

\* After the inner loop: if len(transactions) >= tx_count: break
ScanDone(transactions, tx_count) == Len(transactions) >= tx_count

\* range(current_block, max(current_block - 100, 0), -1): the exclusive lower end.
ScanStop(current_block) == Max(current_block - ScanDepth, 0)

\* One iteration of the outer loop: fetch block_num, run the inner loop, and
\* note whether the loop breaks after it.  st.transactions is the list built
\* so far; st.fetched records each get_block request as <<block, number of
\* transactions collected when it was sent>>.
ScanBlock(env, block_num, address, tx_count, st) ==
    LET got == ScanTxs(BlockTxs(env, block_num), 1, block_num, address, tx_count,
                       st.transactions)
    IN [transactions |-> got,
        fetched |-> Append(st.fetched, <<block_num, Len(st.transactions)>>),
        broke |-> ScanDone(got, tx_count)]

\* The iterations of the outer loop for the block numbers hi, hi - 1, ..., lo
\* in that order, up to the one that breaks.  (The range is split in halves
\* only to keep the evaluation shallow; the order of the iterations is the
\* loop's.)
RECURSIVE ScanBlocks(_, _, _, _, _, _)
ScanBlocks(env, hi, lo, address, tx_count, st) ==
    IF st.broke \/ hi < lo THEN st
    ELSE IF hi = lo THEN ScanBlock(env, hi, address, tx_count, st)
    ELSE LET mid == (hi + lo) \div 2
             upper == ScanBlocks(env, hi, mid + 1, address, tx_count, st)
         IN ScanBlocks(env, mid, lo, address, tx_count, upper)

Probe == <<"web3_clientVersion">>
GetBlockRequests(fetched) == [i \in 1..Len(fetched) |-> <<"eth_getBlockByNumber", fetched[i][1]>>]

\* A handler's outcome: what it returned (or raised), the requests it sent
\* in order, and the record of its scan (empty for the other tools): the
\* get_block requests and the transactions list before the final slice.
NoScan == [fetched |-> <<>>, collected |-> <<>>]
Returned(result, net) == [out |-> "return", result |-> result, net |-> net, scan |-> NoScan]
Raised(exc) == [out |-> "raise", result |-> [exception |-> exc], net |-> <<>>, scan |-> NoScan]

track_transactions(address, chain, tx_count, env) ==
    IF chain \notin SupportedChains
    THEN Returned([error |-> "Connection failed to"], <<>>)
    ELSE IF ~env.connected
    THEN Returned([error |-> "Connection failed to"], <<Probe>>)
    ELSE IF ChecksumRaises(address)
    THEN Returned([error |-> "ValueError"], <<Probe>>)
    ELSE IF env.fails
    THEN Returned([error |-> "ConnectionError"], <<Probe, <<"eth_getTransactionCount">> >>)
    ELSE LET addr == to_checksum_address(address)
             current_block == env.head
             st == ScanBlocks(env, current_block, ScanStop(current_block) + 1, addr,
                              tx_count,
                              [transactions |-> <<>>, fetched |-> <<>>, broke |-> FALSE])
         IN [out |-> "return",
             result |-> [chain |-> chain, address |-> addr,
                         recent_transactions |-> FirstN(st.transactions, tx_count)],
             net |-> <<Probe, <<"eth_getTransactionCount">>, <<"eth_getBalance">>,
                       <<"eth_blockNumber">> >> \o GetBlockRequests(st.fetched),
             scan |-> [fetched |-> st.fetched, collected |-> st.transactions]]

(***************************************************************************)
(* monitor_events.                                                         *)
(***************************************************************************)
\* The contract's log as the node holds it, oldest first.
LogProfiles == {"none", "recent", "old", "many"}
LogEntry(b, e, i) == [blockNumber |-> b, event |-> e, index |-> i]
Logs(env) ==
    CASE env.logs = "none" -> <<>>
      [] env.logs = "recent" ->
            <<LogEntry(env.head - 2, "Transfer", 1), LogEntry(env.head - 1, "Staked", 2),
              LogEntry(env.head, "Transfer", 3)>>
      [] env.logs = "old" ->
            <<LogEntry(0, "Transfer", 1), LogEntry(5, "Transfer", 2),
              LogEntry(env.head - DefaultLookback - 1, "Transfer", 3),
              LogEntry(env.head - DefaultLookback, "Transfer", 4),
              LogEntry(env.head - 1, "Staked", 5), LogEntry(env.head, "Transfer", 6)>>
      [] env.logs = "many" ->
            [i \in 1..(EventCap + 2) |-> LogEntry(env.head - (EventCap + 2) + i, "Transfer", i)]

\* contract.events.<event_name>.create_filter(fromBlock=from_block).get_all_entries()
GetAllEntries(env, event_name, from_block) ==
    SelectSeq(Logs(env), LAMBDA l : l.event = event_name /\ l.blockNumber >= from_block)

\* from_block or (current_block - 1000): Python's `or` takes the right operand
\* when the left one is falsy, and both None and 0 are falsy.
FromBlockOrDefault(from_block, current_block) ==
    IF from_block = None \/ from_block[1] = 0
    THEN current_block - DefaultLookback
    ELSE from_block[1]

EventRecord(l) == [block_number |-> l.blockNumber, index |-> l.index]

monitor_events(contract_address, chain, event_name, from_block, env) ==
    IF chain \notin SupportedChains
    THEN Returned([error |-> "Unsupported chain"], <<>>)
    ELSE IF ~env.connected
    THEN Returned([error |-> "Failed to connect to"], <<Probe>>)
    ELSE IF ~is_address(contract_address)
    THEN Returned([error |-> "Invalid contract address"], <<Probe>>)
    ELSE IF env.fails
    THEN Returned([error |-> "ConnectionError", chain |-> chain], <<Probe, <<"eth_blockNumber">> >>)
    ELSE LET address == to_checksum_address(contract_address)
             current_block == env.head
             from == FromBlockOrDefault(from_block, current_block)
         IN IF event_name \notin {"Transfer", "Staked"}
            THEN Returned([error |-> "Unknown event"], <<Probe, <<"eth_blockNumber">> >>)
            ELSE LET events == GetAllEntries(env, event_name, from)
                     shown == LastN(events, EventCap)
                 IN Returned([chain |-> chain, contract |-> address,
                              event_name |-> event_name,
                              from_block |-> from, to_block |-> current_block,
                              events_count |-> Len(events),
                              events |-> [i \in 1..Len(shown) |-> EventRecord(shown[i])]],
                             <<Probe, <<"eth_blockNumber">>, <<"eth_newFilter", from>>,
                               <<"eth_getFilterLogs">> >>)

(***************************************************************************)
(* check_vulnerabilities.                                                  *)
(***************************************************************************)
\* Deployed code: the bytes written out, followed by `pad` zero bytes.
CodeBytes == {<<>>, <<96>>, <<255>>, <<15, 240>>, <<244>>, <<15, 64>>}
CodePads == {0, SizeLimit - 1, SizeLimit, SizeLimit + 1}
NoCode == [bytes |-> <<>>, pad |-> 0]
CodeLen(code) == Len(code.bytes) + code.pad

\* HexBytes.hex() of the web3 release this server imports (the one that has
\* geth_poa_middleware): "0x" followed by two lower-case hex digits per byte;
\* empty code gives "0x", the value the handler compares with.  The string is
\* held as its "0x" prefix, the digits of code.bytes and a count of the
\* trailing "0" digits of the padding.
RECURSIVE HexDigits(_)
HexDigits(bytes) ==
    IF bytes = <<>> THEN <<>>
    ELSE <<Head(bytes) \div 16, Head(bytes) % 16>> \o HexDigits(Tail(bytes))
Hex(code) == [prefix |-> "0x", digits |-> HexDigits(code.bytes), zeros |-> 2 * code.pad]

\* len(bytecode): the two characters of the prefix and the digits.
StrLen(h) == 2 + Len(h.digits) + h.zeros

\* bytecode == "0x"
IsEmptyHex(h) == h.digits = <<>> /\ h.zeros = 0

\* "<a><b>" in bytecode, for hex digits a, b that are not 0 (neither the
\* prefix nor the padding can then take part in a match).
Contains(h, a, b) == \E i \in 1..(Len(h.digits) - 1) : h.digits[i] = a /\ h.digits[i + 1] = b

\* bytecode_size = len(bytecode) // 2
BytecodeSize(h) == StrLen(h) \div 2

\* if bytecode_size > 24576
ExceedsLimit(bytecode_size) == bytecode_size > SizeLimit

check_vulnerabilities(contract_address, chain, env) ==
    IF chain \notin SupportedChains
    THEN Returned([error |-> "Connection failed to"], <<>>)
    ELSE IF ~env.connected
    THEN Returned([error |-> "Connection failed to"], <<Probe>>)
    ELSE IF ChecksumRaises(contract_address)
    THEN Returned([error |-> "ValueError"], <<Probe>>)
    ELSE IF env.fails
    THEN Returned([error |-> "ConnectionError"], <<Probe, <<"eth_getCode">> >>)
    ELSE LET address == to_checksum_address(contract_address)
             bytecode == Hex(env.code)
             bytecode_size == BytecodeSize(bytecode)
         IN IF IsEmptyHex(bytecode)
            THEN Returned([error |-> "No contract found at this address"],
                          <<Probe, <<"eth_getCode">> >>)
            ELSE Returned(
                   [chain |-> chain, contract |-> address,
                    bytecode_size |-> bytecode_size,
                    vulnerabilities |->
                        IF Contains(bytecode, 15, 15)
                        THEN <<[severity |-> "HIGH", type |-> "SELFDESTRUCT"]>> ELSE <<>>,
                    warnings |->
                        (IF Contains(bytecode, 15, 4)
                         THEN <<[severity |-> "MEDIUM", type |-> "DELEGATECALL"]>> ELSE <<>>)
                        \o (IF ExceedsLimit(bytecode_size)
                            THEN <<[severity |-> "LOW", type |-> "SIZE_LIMIT"]>> ELSE <<>>)],
                   <<Probe, <<"eth_getCode">> >>)

(***************************************************************************)
(* The Chain Inspector's call_tool.  `arguments` is the JSON object of the *)
(* request: each parameter is None when the object omits it.               *)
(***************************************************************************)
MonArgs(contract_address, address, chain, event_name, from_block, tx_count) ==
    [contract_address |-> contract_address, address |-> address, chain |-> chain,
     event_name |-> event_name, from_block |-> from_block, tx_count |-> tx_count]

monitor_call_tool(name, arguments, env) ==
    IF name = "monitor_events"
    THEN IF arguments.contract_address = None THEN Raised("KeyError")
         ELSE monitor_events(arguments.contract_address[1],
                             Get(arguments.chain, DefaultChain),
                             Get(arguments.event_name, "Transfer"),
                             arguments.from_block, env)
    ELSE IF name = "check_vulnerabilities"
    THEN IF arguments.contract_address = None THEN Raised("KeyError")
         ELSE check_vulnerabilities(arguments.contract_address[1],
                                    Get(arguments.chain, DefaultChain), env)
    ELSE IF name = "track_transactions"
    THEN IF arguments.address = None THEN Raised("KeyError")
         ELSE track_transactions(arguments.address[1],
                                 Get(arguments.chain, DefaultChain),
                                 Get(arguments.tx_count, DefaultTxCount), env)
    ELSE Returned([error |-> "Unknown tool"], <<>>)

\* What the requests of the model range over.
OptAddresses == {None} \cup {Some(a) : a \in AddressInputs}
ChainArgs == {None, Some("scroll"), Some("ethereum")}
EventArgs == {None, Some("Staked"), Some("Mint")}
FromBlockArgs == {None, Some(0), Some(1), Some(DefaultLookback - 1)}
TxCountArgs == {None} \cup {Some(n) : n \in 0..MaxTxCount}
EventHeads == {DefaultLookback, DefaultLookback + 2, 2 * DefaultLookback}
TrackHeads == {0, 1, ScanDepth - 1, ScanDepth, ScanDepth + 1, 2 * ScanDepth + 50}

\* The endpoint answers, refuses the connection, or fails on the first request.
Conditions == {<<TRUE, FALSE>>, <<FALSE, FALSE>>, <<TRUE, TRUE>>}
Env(cond, head, layout, logs, code) ==
    [connected |-> cond[1], fails |-> cond[2], head |-> head, layout |-> layout,
     logs |-> logs, code |-> code]
IdleEnv == Env(<<TRUE, FALSE>>, 0, EmptyLayout, "none", NoCode)

Invocation(name, arguments, env) ==
    [tool |-> name, args |-> arguments, env |-> env,
     did |-> monitor_call_tool(name, arguments, env)]

\* The server waiting for its next request.
MonIdle ==
    [tool |-> "", args |-> MonArgs(None, None, None, None, None, None),
     env |-> IdleEnv, did |-> [out |-> "idle", result |-> [idle |-> TRUE],
                               net |-> <<>>, scan |-> NoScan]]

MonInit == mon = MonIdle

MonitorEvents ==
    /\ mon = MonIdle
    /\ \E a \in OptAddresses, c \in ChainArgs, e \in EventArgs, f \in FromBlockArgs,
          cond \in Conditions, head \in EventHeads, logs \in LogProfiles :
           /\ mon' = Invocation("monitor_events", MonArgs(a, None, c, e, f, None),
                                Env(cond, head, EmptyLayout, logs, NoCode))
           /\ UNCHANGED aggVars

CheckVulnerabilities ==
    /\ mon = MonIdle
    /\ \E a \in OptAddresses, c \in ChainArgs, cond \in Conditions,
          bytes \in CodeBytes, pad \in CodePads :
           /\ mon' = Invocation("check_vulnerabilities", MonArgs(a, None, c, None, None, None),
                                Env(cond, 0, EmptyLayout, "none", [bytes |-> bytes, pad |-> pad]))
           /\ UNCHANGED aggVars

TrackTransactions ==
    /\ mon = MonIdle
    /\ \E a \in OptAddresses, c \in ChainArgs, n \in TxCountArgs,
          cond \in Conditions, head \in TrackHeads, layout \in Layouts :
           /\ mon' = Invocation("track_transactions", MonArgs(None, a, c, None, None, n),
                                Env(cond, head, layout, "none", NoCode))
           /\ UNCHANGED aggVars

MonUnknownTool ==
    /\ mon = MonIdle
    /\ mon' = Invocation("list_contracts", MonArgs(None, None, None, None, None, None), IdleEnv)
    /\ UNCHANGED aggVars

\* The reply (or the exception) has gone to the transport; the server, which
\* keeps nothing between requests, waits for the next one.
MonReply ==
    /\ mon # MonIdle
    /\ mon' = MonIdle
    /\ UNCHANGED aggVars

(***************************************************************************)
(* The Market Aggregator.                                                  *)
(***************************************************************************)
DEFILLAMA_BASE_URL == "https://api.llama.fi"
COINGECKO_BASE_URL == "https://api.coingecko.com/api/v3"
ZKEVM_RPC_URL == "https://zkevm-rpc.com"

\* (a - b).seconds for datetimes a, b: a timedelta holds days, seconds and
\* microseconds apart, and .seconds is the seconds field alone, 0..86399.
TimedeltaSeconds(delta) == delta % 86400

\* f"tvl_{protocol}" and f"price_{token_id}"
TvlKey(protocol) == <<"tvl", protocol>>
PriceKey(token_id) == <<"price", token_id>>
CacheKeys == {TvlKey(p) : p \in {"all", "aave"}} \cup {PriceKey(t) : t \in {"ethereum"}}

\* The staleness test with its comparison turned round.
CacheFreshFlipped(entry, window) ==
    /\ entry # None
    /\ TimedeltaSeconds(now - entry[1].time) > window

\* cache_key in self.cache and (datetime.now() - cached_time).seconds < window
CacheFresh(entry, window) ==
    /\ entry # None
    /\ TimedeltaSeconds(now - entry[1].time) < window

\* The request of each handler: the method and URL handed to the session.
TvlUrl(protocol) ==
    IF protocol = "all" THEN <<DEFILLAMA_BASE_URL, "/tvl">>
    ELSE <<DEFILLAMA_BASE_URL, "/protocol/", protocol>>
ProtocolUrl(protocol_name) == <<DEFILLAMA_BASE_URL, "/protocol/", protocol_name>>
PriceUrl(token_id) == <<COINGECKO_BASE_URL, "/simple/price", token_id>>
\* rpc_urls.get(chain, ZKEVM_RPC_URL)
RpcUrl(chain) ==
    CASE chain = "polygon-zkevm" -> <<"https://zkevm-rpc.com">>
      [] chain = "scroll" -> <<"https://rpc.scroll.io">>
      [] chain = "zksync" -> <<"https://mainnet.era.zksync.io">>
      [] OTHER -> <<ZKEVM_RPC_URL>>

\* What comes back for a request: an exception raised by the client, or a
\* response with a status and (for 200) a JSON body.
Exception == [kind |-> "exception"]
Status(code) == [kind |-> "status", status |-> code]
Ok(body) == [kind |-> "status", status |-> 200, body |-> body]

\* The digits read in base ten.
RECURSIVE IntBase10(_, _)
IntBase10(digits, acc) ==
    IF digits = <<>> THEN acc ELSE IntBase10(Tail(digits), 10 * acc + Head(digits))

\* int(s, 16) for a string "0x<digits>"; digits are held as numbers 0..15.
RECURSIVE IntBase16(_, _)
IntBase16(digits, acc) ==
    IF digits = <<>> THEN acc ELSE IntBase16(Tail(digits), 16 * acc + Head(digits))

\* fetch_tvl after the response, were it to stamp the cache whatever came back.
fetch_tvl_response_storing(protocol, resp) ==
    IF resp.kind = "exception"
    THEN [result |-> [error |-> "exception", protocol |-> protocol],
          store |-> Some([time |-> now, data |-> [error |-> "exception", protocol |-> protocol]])]
    ELSE IF resp.status = 200
    THEN [result |-> resp.body, store |-> Some([time |-> now, data |-> resp.body])]
    ELSE [result |-> [error |-> "HTTP", status |-> resp.status, protocol |-> protocol],
          store |-> Some([time |-> now,
                          data |-> [error |-> "HTTP", status |-> resp.status,
                                    protocol |-> protocol]])]

\* The part of fetch_tvl after the response: [result, store], where store is
\* the cache entry written, if any.
fetch_tvl_response(protocol, resp) ==
    IF resp.kind = "exception"
    THEN [result |-> [error |-> "exception", protocol |-> protocol], store |-> None]
    ELSE IF resp.status = 200
    THEN [result |-> resp.body, store |-> Some([time |-> now, data |-> resp.body])]
    ELSE [result |-> [error |-> "HTTP", status |-> resp.status, protocol |-> protocol],
          store |-> None]

ProtocolFields == {"name", "symbol", "tvl", "chainTvls", "change_1h", "change_1d",
                   "change_7d", "mcap"}
get_protocol_data_response(protocol_name, resp) ==
    IF resp.kind = "exception"
    THEN [result |-> [error |-> "exception"], store |-> None]
    ELSE IF resp.status = 200
    THEN [result |-> [reshaped |->
                        [f \in ProtocolFields |->
                            IF f \in DOMAIN resp.body THEN resp.body[f]
                            ELSE IF f = "chainTvls" THEN "{}" ELSE "null"]],
          store |-> None]
    ELSE [result |-> [error |-> "Protocol not found"], store |-> None]

\* A JSON-RPC body: has_result says whether it has a "result" key, result is
\* null (None) or a string "0x<digits>" (Some(digits)).
\* data.get("result") and data.get("result", "0x0"):
RawResult(body) == IF body.has_result THEN body.result ELSE None
ResultOrZero(body) == IF body.has_result THEN body.result ELSE Some(<<0>>)

query_blockchain_response(chain, method, resp) ==
    IF resp.kind = "exception"
    THEN [result |-> [error |-> "exception", chain |-> chain], store |-> None]
    ELSE IF resp.status = 200
    THEN IF method = "eth_blockNumber"
         THEN IF ResultOrZero(resp.body) = None
              THEN [result |-> [error |-> "TypeError", chain |-> chain], store |-> None]
              ELSE IF ResultOrZero(resp.body)[1] = <<>>
              THEN [result |-> [error |-> "ValueError", chain |-> chain], store |-> None]
              ELSE [result |-> [chain |-> chain, method |-> method,
                                result |-> RawResult(resp.body),
                                block_number |->
                                    Some(IntBase16(ResultOrZero(resp.body)[1], 0))],
                    store |-> None]
         ELSE [result |-> [chain |-> chain, method |-> method,
                           result |-> RawResult(resp.body), block_number |-> None],
               store |-> None]
    ELSE [result |-> [error |-> "RPC call failed", status |-> resp.status], store |-> None]

\* A CoinGecko body maps the token id to its figures, or lacks the token.
get_token_price_response(token_id, resp) ==
    IF resp.kind = "exception"
    THEN [result |-> [error |-> "exception"], store |-> None]
    ELSE IF resp.status = 200
    THEN LET result == [token |-> token_id,
                        price_usd |-> IF resp.body = None THEN None ELSE Some(resp.body[1].usd),
                        change_24h |-> IF resp.body = None THEN None
                                       ELSE Some(resp.body[1].usd_24h_change),
                        market_cap |-> IF resp.body = None THEN None
                                       ELSE Some(resp.body[1].usd_market_cap),
                        timestamp |-> now]
         IN [result |-> result, store |-> Some([time |-> now, data |-> result])]
    ELSE [result |-> [error |-> "CoinGecko API error", status |-> resp.status],
          store |-> None]

(***************************************************************************)
(* The aggregator's call_tool.  Every invocation enters the one module-    *)
(* level `aggregator` object (async with aggregator), which creates a new  *)
(* ClientSession and stores it in aggregator.session, and on leaving       *)
(* closes whatever aggregator.session then holds.  An invocation that has  *)
(* to ask the network suspends at its request; other invocations run in    *)
(* between.                                                                *)
(*                                                                         *)
(* Invocation i is the one that created session i.  While it is suspended  *)
(* tasks[i] holds its tool, its arguments, the request it sent and `seen`: *)
(* of the last call for its key that had completed with HTTP 200 when it   *)
(* started, the result and how long ago (age, in seconds) its cache entry  *)
(* was stamped.  When it returns, `last` takes all that, the response and  *)
(* the result.  lastOk is kept by observation alone: on every HTTP 200     *)
(* completion of a fetch_tvl or get_token_price it takes the clock and the *)
(* result that call returned.                                              *)
(***************************************************************************)
AggArgs(protocol, protocol_name, chain, method, token_id) ==
    [protocol |-> protocol, protocol_name |-> protocol_name, chain |-> chain,
     method |-> method, token_id |-> token_id]
NoAggArgs == AggArgs(None, None, None, None, None)

Task(pc, tool, args, request, seen) ==
    [pc |-> pc, tool |-> tool, args |-> args, request |-> request, seen |-> seen]
IdleTask == Task("idle", "", NoAggArgs, None, None)
DoneTask == Task("done", "", NoAggArgs, None, None)
NoLast ==
    [tool |-> "", args |-> NoAggArgs, request |-> None, seen |-> None,
     response |-> None, result |-> [idle |-> TRUE]]

\* What a call starting now sees of the last 200 completion for `key`.
Seen(key) ==
    IF lastOk[key] = None THEN None
    ELSE Some([age |-> now - lastOk[key][1].time, data |-> lastOk[key][1].data])

AggInit ==
    /\ now = 0
    /\ ticks = 0
    /\ cache = [k \in CacheKeys |-> None]
    /\ session = None
    /\ sessions = <<>>
    /\ tasks = [i \in 1..MaxCalls |-> IdleTask]
    /\ last = NoLast
    /\ lastOk = [k \in CacheKeys |-> None]

\* __aenter__: the id of the session it creates; no more than MaxCalls
\* invocations are started.
NewSession == Len(sessions) + 1
CanStart == Len(sessions) < MaxCalls

\* __aexit__ when aggregator.session holds `held`: if self.session: close it.
Close(all, held) == IF held = None THEN all ELSE [all EXCEPT ![held[1]] = "closed"]

\* An invocation that returns without asking the network: enter, return, exit.
Immediate(tool, args, seen, result) ==
    /\ tasks' = [tasks EXCEPT ![NewSession] = DoneTask]
    /\ last' = [tool |-> tool, args |-> args, request |-> None, seen |-> seen,
                response |-> None, result |-> result]
    /\ session' = Some(NewSession)
    /\ sessions' = Close(Append(sessions, "open"), Some(NewSession))
    /\ UNCHANGED <<now, ticks, cache, lastOk, mon>>

\* An invocation that enters and sends `request` on the session just created.
Suspend(tool, args, seen, request) ==
    /\ tasks' = [tasks EXCEPT ![NewSession] = Task("request", tool, args, Some(request), seen)]
    /\ session' = Some(NewSession)
    /\ sessions' = Append(sessions, "open")
    /\ UNCHANGED <<now, ticks, cache, last, lastOk, mon>>

ProtocolArgs == {None, Some("aave")}
TokenArgs == {None}
\* (chain, method) of the query_blockchain requests.
RpcArgs == {<<Some("scroll"), None>>, <<Some("ethereum"), Some("eth_gasPrice")>>}

CallFetchTvl ==
    /\ CanStart
    /\ \E p \in ProtocolArgs :
        LET args == AggArgs(p, None, None, None, None)
            protocol == Get(p, "all")
            entry == cache[TvlKey(protocol)]
            seen == Seen(TvlKey(protocol))
        IN IF CacheFresh(entry, TvlWindow)
           THEN Immediate("fetch_tvl", args, seen, entry[1].data)
           ELSE Suspend("fetch_tvl", args, seen, <<"GET">> \o TvlUrl(protocol))

CallGetProtocolData ==
    /\ CanStart
    /\ \E p \in ProtocolArgs :
        LET args == AggArgs(None, p, None, None, None)
        IN IF p = None
           THEN Immediate("get_protocol_data", args, None, [error |-> "protocol_name required"])
           ELSE Suspend("get_protocol_data", args, None, <<"GET">> \o ProtocolUrl(p[1]))

CallQueryBlockchain ==
    /\ CanStart
    /\ \E a \in RpcArgs :
        Suspend("query_blockchain", AggArgs(None, None, a[1], a[2], None), None,
                <<"POST">> \o RpcUrl(Get(a[1], DefaultChain)))

CallGetTokenPrice ==
    /\ CanStart
    /\ \E t \in TokenArgs :
        LET args == AggArgs(None, None, None, None, t)
            token_id == Get(t, "ethereum")
            entry == cache[PriceKey(token_id)]
            seen == Seen(PriceKey(token_id))
        IN IF CacheFresh(entry, PriceWindow)
           THEN Immediate("get_token_price", args, seen, entry[1].data)
           ELSE Suspend("get_token_price", args, seen, <<"GET">> \o PriceUrl(token_id))

CallUnknownTool ==
    /\ CanStart
    /\ Immediate("get_gas", NoAggArgs, None, [error |-> "Unknown tool"])

\* The responses the model lets the network give each tool.
TvlBodies == {[tvl |-> 1], [tvl |-> 2]}
ProtocolBodies == {[name |-> "Aave", tvl |-> "5"], [slug |-> "aave"]}
RpcBodies == {[has_result |-> FALSE, result |-> None], [has_result |-> TRUE, result |-> None],
              [has_result |-> TRUE, result |-> Some(<<1, 0>>)],
              [has_result |-> TRUE, result |-> Some(<<>>)]}
PriceBodies == {None, Some([usd |-> 100, usd_24h_change |-> 1, usd_market_cap |-> 5])}
Bodies(tool) ==
    CASE tool = "fetch_tvl" -> TvlBodies
      [] tool = "get_protocol_data" -> ProtocolBodies
      [] tool = "query_blockchain" -> RpcBodies
      [] tool = "get_token_price" -> PriceBodies
Responses(tool) == {Exception, Status(404)} \cup {Ok(b) : b \in Bodies(tool)}

\* The rest of the handler once the response (or the client's exception) is in.
Continue(t, resp) ==
    CASE t.tool = "fetch_tvl" -> fetch_tvl_response(Get(t.args.protocol, "all"), resp)
      [] t.tool = "get_protocol_data" ->
            get_protocol_data_response(t.args.protocol_name[1], resp)
      [] t.tool = "query_blockchain" ->
            query_blockchain_response(Get(t.args.chain, DefaultChain),
                                      Get(t.args.method, "eth_blockNumber"), resp)
      [] t.tool = "get_token_price" ->
            get_token_price_response(Get(t.args.token_id, "ethereum"), resp)

CachedTools == {"fetch_tvl", "get_token_price"}
KeyOf(t) ==
    IF t.tool = "fetch_tvl" THEN TvlKey(Get(t.args.protocol, "all"))
    ELSE PriceKey(Get(t.args.token_id, "ethereum"))
Is200(resp) == resp.kind = "status" /\ resp.status = 200

\* The suspended invocation i resumes with a response, finishes its handler
\* and leaves the aggregator.
Respond(i) ==
    /\ tasks[i].pc = "request"
    /\ \E resp \in Responses(tasks[i].tool) :
        LET t == tasks[i]
            got == Continue(t, resp)
        IN /\ last' = [tool |-> t.tool, args |-> t.args, request |-> t.request,
                       seen |-> t.seen, response |-> Some(resp), result |-> got.result]
           /\ cache' = IF got.store = None THEN cache
                       ELSE [cache EXCEPT ![KeyOf(t)] = got.store]
           /\ lastOk' = IF t.tool \in CachedTools /\ Is200(resp)
                        THEN [lastOk EXCEPT ![KeyOf(t)] =
                                  Some([time |-> now, data |-> got.result])]
                        ELSE lastOk
    /\ tasks' = [tasks EXCEPT ![i] = DoneTask]
    /\ sessions' = Close(sessions, session)
    /\ UNCHANGED <<now, ticks, session, mon>>

\* Time passes between steps (as long as an invocation is still to start or
\* to return: later the clock is read no more).
TickSteps == {PriceWindow - 1, PriceWindow, TvlWindow, 86400}
Tick ==
    /\ ticks < MaxTicks
    /\ CanStart \/ \E i \in 1..MaxCalls : tasks[i].pc = "request"
    /\ \E d \in TickSteps : now' = now + d
    /\ ticks' = ticks + 1
    /\ UNCHANGED <<cache, session, sessions, tasks, last, lastOk, mon>>

(***************************************************************************)
(* Specifications.                                                         *)
(***************************************************************************)
Init == MonInit /\ AggInit

NextMon ==
    MonitorEvents \/ CheckVulnerabilities \/ TrackTransactions \/ MonUnknownTool \/ MonReply

NextAgg ==
    \/ CallFetchTvl
    \/ CallGetProtocolData
    \/ CallQueryBlockchain
    \/ CallGetTokenPrice
    \/ CallUnknownTool
    \/ \E i \in 1..MaxCalls : Respond(i)
    \/ Tick

SpecMon == Init /\ [][NextMon]_vars
SpecAgg == Init /\ [][NextAgg]_vars

(***************************************************************************)
(* Properties of the Market Aggregator's cache (fetch_tvl, get_token_price)*)
(***************************************************************************)
WindowOf(tool) == IF tool = "fetch_tvl" THEN TvlWindow ELSE PriceWindow
Calls == 1..MaxCalls

\* The invocations to look at: the one that returned last, and the suspended
\* ones (of which only what is known at the request is looked at).
Observed == {last} \cup {tasks[i] : i \in {c \in Calls : tasks[c].pc = "request"}}

\* Invocation c is a call of a cached tool that started after a call for the
\* same key had completed with HTTP 200; c.seen is the last such call.
AfterFetch(c) == c.tool \in CachedTools /\ c.seen # None

\* Seconds from that call's fetch (the time its cache entry was stamped) to
\* the start of c.
Elapsed(c) == c.seen[1].age

\* C1: after a call for a key has completed with HTTP 200, a later call for
\* the same key that starts less than the window (1 hour for fetch_tvl, 5
\* minutes for get_token_price) after that fetch sends no request and returns
\* the cached payload, so the two calls together send exactly one request.
C1_ServedFromCacheWithinWindow ==
    /\ \A c \in Observed :
        (AfterFetch(c) /\ Elapsed(c) < WindowOf(c.tool)) => c.request = None
    /\ (AfterFetch(last) /\ Elapsed(last) < WindowOf(last.tool))
            => last.result = last.seen[1].data

\* A fetch_tvl that started after an earlier one for the same protocol got
\* its 200, some time but less than an hour later (here: 5 minutes, which is
\* past the price window), has returned.
C1_Witness ==
    /\ last.tool = "fetch_tvl"
    /\ last.seen # None
    /\ Elapsed(last) = PriceWindow

\* C2: a cache entry is never served once its window has elapsed: a call
\* that starts 1 hour (fetch_tvl) or 5 minutes (get_token_price) or more after
\* the fetch timestamp of the entry for its key, however much more, sends a
\* new request.
C2_NeverServedAfterWindow ==
    \A c \in Observed :
        (AfterFetch(c) /\ Elapsed(c) >= WindowOf(c.tool)) => c.request # None

(***************************************************************************)
(* Properties of the tool invocations.                                     *)
(***************************************************************************)
MonReturned == mon.did.out = "return"
IsError(result) == "error" \in DOMAIN result

\* C3: no exception propagates out of a tool invocation: call_tool completes
\* with a result object for every tool name and every argument object, one
\* that omits a required parameter included.  (The aggregator's call_tool
\* reads its arguments with .get and its handlers catch every exception:
\* every invocation of it that returns holds a result.)
C3_NoExceptionPropagates ==
    /\ mon.did.out # "raise"
    /\ "exception" \notin DOMAIN last.result

\* C4: for an address that fails checksum/format validation, monitor_events
\* and track_transactions return a validation error and send no request, not
\* even the connectivity probe.
AddressArg ==
    IF mon.tool = "monitor_events" THEN mon.args.contract_address ELSE mon.args.address
C4_InvalidAddressNoNetwork ==
    (/\ mon.tool \in {"monitor_events", "track_transactions"}
     /\ AddressArg # None
     /\ ~is_address(AddressArg[1]))
        => /\ MonReturned
           /\ IsError(mon.did.result)
           /\ mon.did.net = <<>>

\* C5: for every tool that takes a chain identifier, an identifier outside
\* the three supported ones is detected before any network call: the result
\* holds an error and no request is sent to any endpoint.
C5_UnsupportedChainNoNetwork ==
    /\ (/\ mon.tool \in {"monitor_events", "check_vulnerabilities", "track_transactions"}
        /\ MonReturned
        /\ Get(mon.args.chain, DefaultChain) \notin SupportedChains)
            => IsError(mon.did.result) /\ mon.did.net = <<>>
    /\ \A c \in Observed :
        (/\ c.tool = "query_blockchain"
         /\ Get(c.args.chain, DefaultChain) \notin SupportedChains)
            => c.request = None
    /\ (/\ last.tool = "query_blockchain"
        /\ Get(last.args.chain, DefaultChain) \notin SupportedChains)
            => IsError(last.result)

(***************************************************************************)
(* Properties of track_transactions.                                       *)
(***************************************************************************)
\* The last invocation was a track_transactions that returned its report.
Tracked ==
    /\ mon.tool = "track_transactions"
    /\ MonReturned
    /\ ~IsError(mon.did.result)
TxCount == Get(mon.args.tx_count, DefaultTxCount)
Recent == mon.did.result.recent_transactions
Fetched == mon.did.scan.fetched

\* No more than tx_count transactions come back.
AtMostTxCount == Len(Recent) <= TxCount
\* Every block fetched lies in (head - 100, head].
InsideWindow ==
    \A k \in 1..Len(Fetched) :
        Fetched[k][1] > mon.env.head - ScanDepth /\ Fetched[k][1] <= mon.env.head
\* The scan stops as soon as tx_count matching transactions are collected: no
\* block is fetched once the list holds tx_count of them, and the list never
\* holds more.
StopsAtTxCount ==
    /\ \A k \in 1..Len(Fetched) : Fetched[k][2] < TxCount
    /\ Len(mon.did.scan.collected) <= TxCount

\* C6 as stated: for every head, every tx_count >= 0 and every chain content,
\* track_transactions returns at most tx_count transactions, fetches only
\* blocks in (head - 100, head] and stops scanning as soon as tx_count
\* matching transactions are collected.
C6_BoundedScan == Tracked => (AtMostTxCount /\ InsideWindow /\ StopsAtTxCount)

\* C6 as amended: the first two parts hold for every tx_count >= 0; the scan
\* stops as soon as tx_count matches are collected when tx_count >= 1; for
\* tx_count = 0 the break test is first reached after the head block has
\* been fetched, so that one block is fetched and at most one match is
\* collected (and dropped by the final slice).
C6_BoundedScanAmended ==
    Tracked =>
        /\ AtMostTxCount
        /\ InsideWindow
        /\ TxCount >= 1 => StopsAtTxCount
        /\ TxCount = 0 => (Len(Fetched) <= 1 /\ Len(mon.did.scan.collected) <= 1
                           /\ Recent = <<>>)

\* A scan over a chain taller than the window that went past its first block
\* and stopped short of the window's end with tx_count (>= 2) matches.
C6_Witness ==
    /\ Tracked
    /\ mon.env.head > ScanDepth
    /\ TxCount >= 2
    /\ Len(Recent) = TxCount
    /\ Len(Fetched) >= 2
    /\ Len(Fetched) < ScanDepth

\* The transactions of the window that touch the queried address, as
\* <<block, position>>; and the ones returned.
WindowBlocks == {n \in 1..mon.env.head : n > mon.env.head - ScanDepth}
WindowMatches ==
    {m \in UNION {{<<n, p>> : p \in 1..Len(BlockTxs(mon.env, n))} : n \in WindowBlocks} :
        TouchesAddress(BlockTxs(mon.env, m[1])[m[2]], mon.did.result.address)}
ReturnedMatches == {Recent[k].hash : k \in 1..Len(Recent)}
AtLeastAsRecent(r, t) == r[1] > t[1] \/ (r[1] = t[1] /\ r[2] >= t[2])

\* C7: the transactions returned are the most recent ones touching the
\* address in the window: every returned transaction is at least as recent
\* (higher block, or same block and later position) as every matching
\* transaction of the window that is not returned.
C7_MostRecentReturned ==
    Tracked =>
        \A t \in WindowMatches \ ReturnedMatches :
            \A r \in ReturnedMatches : AtLeastAsRecent(r, t)

(***************************************************************************)
(* Properties of the aggregator's session, of check_vulnerabilities and of *)
(* monitor_events.                                                         *)
(***************************************************************************)
\* C8: every session opened for a tool invocation is closed again: once all
\* invocations have returned, no session that was opened remains open,
\* whatever the interleaving of the invocations at their requests.
C8_SessionsReleased ==
    (\A i \in Calls : tasks[i].pc # "request")
        => \A k \in 1..Len(sessions) : sessions[k] = "closed"

\* The last invocation was a check_vulnerabilities that returned its report.
Scanned ==
    /\ mon.tool = "check_vulnerabilities"
    /\ MonReturned
    /\ ~IsError(mon.did.result)
HasSizeWarning ==
    \E k \in 1..Len(mon.did.result.warnings) : mon.did.result.warnings[k].type = "SIZE_LIMIT"

\* C9: the SIZE_LIMIT warning is given exactly when the deployed code is
\* longer than 24576 bytes, and bytecode_size is the code's length in bytes
\* (24576 bytes: no warning, bytecode_size 24576; 24577 bytes: warning).
C9_SizeWarningBoundary ==
    Scanned =>
        /\ HasSizeWarning <=> CodeLen(mon.env.code) > SizeLimit
        /\ mon.did.result.bytecode_size = CodeLen(mon.env.code)

\* The last invocation was a monitor_events that returned its report.
Monitored ==
    /\ mon.tool = "monitor_events"
    /\ MonReturned
    /\ ~IsError(mon.did.result)

\* C10: monitor_events queries from the caller's starting block whenever one
\* is supplied, 0 included, and from head - 1000 only when none is; the
\* from_block it reports is the block it used, and the events returned are
\* the last (at most 50) of the entries matched from that block to the head.
C10_FromBlockHonoured ==
    Monitored =>
        LET used == IF mon.args.from_block = None THEN mon.env.head - DefaultLookback
                    ELSE mon.args.from_block[1]
            matched == GetAllEntries(mon.env, mon.did.result.event_name, used)
            shown == LastN(matched, EventCap)
        IN /\ mon.did.result.from_block = used
           /\ <<"eth_newFilter", used>> \in {mon.did.net[k] : k \in 3..Len(mon.did.net)}
           /\ mon.did.result.events = [k \in 1..Len(shown) |-> EventRecord(shown[k])]

(***************************************************************************)
(* Properties of query_blockchain's result.                                *)
(***************************************************************************)
\* The last invocation was a query_blockchain that got an HTTP 200.
Queried ==
    /\ last.tool = "query_blockchain"
    /\ last.response # None
    /\ Is200(last.response[1])
RpcMethod == Get(last.args.method, "eth_blockNumber")
RpcBody == last.response[1].body
\* The body's "result" is a string of hex digits, "0x" and at least one digit.
HasHexResult == RpcBody.has_result /\ RpcBody.result # None /\ RpcBody.result[1] # <<>>

\* The number a string of hex digits stands for: the last digit counts once,
\* the digits before it sixteen times what they stand for.
RECURSIVE HexValue(_)
HexValue(digits) ==
    IF digits = <<>> THEN 0
    ELSE digits[Len(digits)] + 16 * HexValue(SubSeq(digits, 1, Len(digits) - 1))

\* C11: with a 200 response, query_blockchain returns block_number equal to
\* the value of the hex result string when the method is eth_blockNumber
\* ("0x10" gives 16) and block_number null for every other method, the raw
\* result being passed through unchanged in both cases.
C11_BlockNumberParsed ==
    Queried =>
        /\ (RpcMethod = "eth_blockNumber" /\ HasHexResult)
                => /\ ~IsError(last.result)
                   /\ last.result.block_number = Some(HexValue(RpcBody.result[1]))
                   /\ last.result.result = RpcBody.result
        /\ RpcMethod # "eth_blockNumber"
                => /\ ~IsError(last.result)
                   /\ last.result.block_number = None
                   /\ last.result.result = (IF RpcBody.has_result THEN RpcBody.result ELSE None)

\* An eth_blockNumber query answered "0x10" has returned 16.
C11_Witness ==
    /\ Queried
    /\ RpcMethod = "eth_blockNumber"
    /\ HasHexResult
    /\ RpcBody.result[1] = <<1, 0>>
    /\ last.result.block_number = Some(16)

(***************************************************************************)
(* Properties of the cache's contents.                                     *)
(***************************************************************************)
\* A step in which an invocation returns.
Returns == \E i \in Calls : tasks[i].pc # "done" /\ tasks'[i].pc = "done"
\* The invocation that returned last got an HTTP 200 for a cached tool.
Fetched200 ==
    /\ last.tool \in CachedTools
    /\ last.response # None
    /\ Is200(last.response[1])
    /\ ~IsError(last.result)
\* The invocation that returned last was answered from the cache.
ServedFromCache == last.tool \in CachedTools /\ last.request = None

\* C12: only successful fetches modify the cache: the cache changes only in
\* the return of a fetch_tvl or get_token_price that got an HTTP 200; a call
\* that ends in an error result, and every get_protocol_data and
\* query_blockchain, leaves it as it was; so no cache entry holds an error
\* result and none is returned from the cache.
C12_OnlySuccessWritesCache ==
    /\ [][cache' # cache => (Returns /\ Fetched200')]_vars
    /\ [][(Returns /\ (IsError(last'.result) \/ last'.tool \notin CachedTools))
                => cache' = cache]_vars
    /\ [](\A k \in CacheKeys : cache[k] # None => ~IsError(cache[k][1].data))
    /\ [](ServedFromCache => ~IsError(last.result))

\* A fetch_tvl that started with a stale entry for its protocol and got a
\* non-200 answer has returned its error, and the entry is still the one it
\* found.
C12_Witness ==
    /\ last.tool = "fetch_tvl"
    /\ last.response # None
    /\ last.response[1] = Status(404)
    /\ IsError(last.result)
    /\ last.seen # None
    /\ cache[KeyOf(last)] # None
    /\ cache[KeyOf(last)][1].data = last.seen[1].data

(***************************************************************************)
(* Properties of the session under interleaving.                           *)
(***************************************************************************)
\* C13: no invocation's session is closed by another invocation while the
\* first still has a request pending: the session an invocation created on
\* entering the aggregator and sent its request on stays open until that
\* invocation itself leaves.
C13_PendingSessionOpen ==
    \A i \in Calls : tasks[i].pc = "request" => sessions[i] = "open"

====
